---- MODULE Spec2Model ----
(***************************************************************************)
(* Header theme propagation and navigation rendering of wearpact-cms.      *)
(*                                                                         *)
(* HeaderClient (src/src/Header/Component.client.tsx) keeps a local        *)
(* display theme and copies the shared header theme into it from an        *)
(* effect; HighImpactHero (src/unnamed/part_000) requests "dark" from an   *)
(* effect without dependencies; HeaderNav and Footer map a CMS list of     *)
(* navigation entries to link elements.                                    *)
(*                                                                         *)
(* React's scheduling is modelled as it is: a setter call enqueues an      *)
(* update (the last call wins), a commit applies the queued updates,       *)
(* re-renders the components whose state or context changed and schedules  *)
(* their effects, and every scheduled effect runs before the next commit.  *)
(* An effect reads the values of the render that scheduled it, which are   *)
(* the committed values.                                                   *)
(***************************************************************************)
EXTENDS Naturals, Sequences, FiniteSets, TLC

VARIABLES
    headerTheme,    \* committed value of the shared header theme (context)
    sharedQueue,    \* update queued by setHeaderTheme, NONE when empty
    headerMounted,  \* HeaderClient is in the tree
    theme,          \* HeaderClient's local state: the display theme
    themeQueue,     \* update queued by setTheme, NONE when empty
    resetPending,   \* HeaderClient's first effect is scheduled
    syncPending,    \* HeaderClient's second effect is scheduled
    data,           \* HeaderClient's prop
    headerAttrs,    \* attributes of the rendered <header> element
    navOut,         \* what HeaderNav rendered inside the <header>
    heroMounted,    \* HighImpactHero is in the tree
    heroPending,    \* HighImpactHero's effect is scheduled
    heroProps,      \* HighImpactHero's props: links, media, richText
    heroOut,        \* what HighImpactHero rendered
    footerOut,      \* what Footer rendered last
    syncStat,       \* runs of the sync effect, and its setTheme calls, since the
                    \* shared theme last changed or the Header mounted
    last            \* the operation that produced this state

vars == <<headerTheme, sharedQueue, headerMounted, theme, themeQueue,
          resetPending, syncPending, data, headerAttrs, navOut,
          heroMounted, heroPending, heroProps, heroOut, footerOut, syncStat,
          last>>

\* Longest navigation list the CMS supplies in the model.
MaxNavItems == 2

\* Longest list of links a hero carries in the model.
MaxHeroLinks == 2

-----------------------------------------------------------------------------
(* Values *)

NULL == "NULL"
NONE == "NONE"

\* string | null of the shared theme and of useState<string | null>
ThemeValues == {NULL, "dark", "light"}

\* JavaScript truthiness of a string | null
Truthy(v) == v # NULL /\ v # ""

JsNull == [t |-> "null"]
JsUndefined == [t |-> "undefined"]
JsArray(s) == [t |-> "array", v |-> s]

\* JavaScript truthiness of an object, array, null or undefined
TruthyObj(x) == x.t \notin {"null", "undefined"}

Labels == {"Home", "Posts"}

\* navItems entries: { link: { label, url } }
NavItem(l) == [link |-> [label |-> l, url |-> "/"]]

SeqUpTo(S, n) == UNION {[1..k -> S] : k \in 0..n}

NavLists == SeqUpTo({NavItem(l) : l \in Labels}, MaxNavItems)

\* the Header / Footer global as the CMS hands it over
Globals ==
    {JsNull, JsUndefined}
    \cup {[t |-> "object", navItems |-> n] : n \in {JsNull, JsUndefined}}
    \cup {[t |-> "object", navItems |-> JsArray(s)] : s \in NavLists}

-----------------------------------------------------------------------------
(* Rendering *)

\* a thrown TypeError in place of a render result
Thrown == [threw |-> TRUE, children |-> <<>>]
Rendered(c) == [threw |-> FALSE, children |-> c]

\* x without the fallback to []
OrEmpty_Missing(x) == x

\* data?.navItems
OptNavItems(d) == IF TruthyObj(d) THEN d.navItems ELSE JsUndefined

\* x || []
OrEmpty(x) == IF TruthyObj(x) THEN x ELSE JsArray(<<>>)

NavItemsOf(d) == OrEmpty(OptNavItems(d))

SearchLink == [type |-> "Link", href |-> "/search"]

HeaderNavLink(item) ==
    [type |-> "CMSLink", key |-> item.link.label, label |-> item.link.label,
     url |-> item.link.url, appearance |-> "link"]

\* the entries of s whose label no earlier entry has
RECURSIVE DedupByLabel(_)
DedupByLabel(s) ==
    IF s = <<>> THEN <<>>
    ELSE LET n    == Len(s)
             init == DedupByLabel(SubSeq(s, 1, n - 1))
         IN  IF \E j \in 1..(n - 1) : s[j].link.label = s[n].link.label
               THEN init ELSE Append(init, s[n])

\* the items collected in a map keyed by label before rendering
HeaderNav_Dedup(d) ==
    LET navItems == NavItemsOf(d)
    IN  IF navItems.t # "array" THEN Thrown
        ELSE LET items == DedupByLabel(navItems.v)
             IN  Rendered([i \in 1..Len(items) |-> HeaderNavLink(items[i])]
                          \o <<SearchLink>>)

\* the search link placed before the mapped items
HeaderNav_SearchFirst(d) ==
    LET navItems == NavItemsOf(d)
    IN  IF navItems.t # "array" THEN Thrown
        ELSE Rendered(<<SearchLink>>
                      \o [i \in 1..Len(navItems.v) |-> HeaderNavLink(navItems.v[i])])

\* the whole <nav> rendered only when there are items
HeaderNav_HiddenWhenEmpty(d) ==
    LET navItems == NavItemsOf(d)
    IN  IF navItems.t # "array" THEN Thrown
        ELSE IF Len(navItems.v) = 0 THEN Rendered(<<>>)
        ELSE Rendered([i \in 1..Len(navItems.v) |-> HeaderNavLink(navItems.v[i])]
                      \o <<SearchLink>>)

HeaderNav(d) ==
    LET navItems == NavItemsOf(d)
    IN  IF navItems.t # "array" THEN Thrown
        ELSE Rendered([i \in 1..Len(navItems.v) |-> HeaderNavLink(navItems.v[i])]
                      \o <<SearchLink>>)

LogoLink == [type |-> "Link", href |-> "/"]
ThemeSelector == [type |-> "ThemeSelector"]

FooterLink(item) ==
    [type |-> "CMSLink", key |-> item.link.label, label |-> item.link.label,
     url |-> item.link.url, className |-> "text-white"]

Footer(footerData) ==
    LET navItems == NavItemsOf(footerData)
    IN  IF navItems.t # "array" THEN Thrown
        ELSE Rendered(<<LogoLink, ThemeSelector,
                        [type |-> "nav",
                         children |-> [i \in 1..Len(navItems.v) |->
                                          FooterLink(navItems.v[i])]]>>)

\* 'data-theme': theme without the conditional spread
HeaderRootProps_Always(t) ==
    {<<"className", "container relative z-20">>, <<"data-theme", t>>}

\* {...(theme ? { 'data-theme': theme } : {})} next to className
HeaderRootProps(t) ==
    {<<"className", "container relative z-20">>}
    \cup (IF Truthy(t) THEN {<<"data-theme", t>>} ELSE {})

NoOutput == [threw |-> FALSE, children |-> <<>>]

\* The hero field of a page: richText is an object or missing, links an array
\* or missing, media a populated object, an id, or missing.
RichTextValues == {JsNull, JsUndefined, [t |-> "object", root |-> "text"]}

HeroLinkLists == SeqUpTo({NavItem(l) : l \in Labels}, MaxHeroLinks)

LinksValues == {JsNull, JsUndefined} \cup {JsArray(l) : l \in HeroLinkLists}

MediaValues ==
    {JsNull, JsUndefined, [t |-> "string", v |-> "media-id"],
     [t |-> "object", url |-> "/media/hero.jpg"]}

HeroProps == [richText : RichTextValues, links : LinksValues, media : MediaValues]

\* the hero of the page the theme behaviour is explored with
PlainHero == [richText |-> JsNull, links |-> JsNull, media |-> JsNull]

\* JavaScript truthiness of a prop value (all strings here are non-empty)
TruthyProp(x) == x.t \notin {"null", "undefined"}

\* typeof x === 'object', which null satisfies too
TypeofObject(x) == x.t \in {"object", "array", "null"}

\* richText &&
HeroRichTextShown(richText) == TruthyProp(richText)

\* Array.isArray(links) without the length test
HeroLinksShown_NoLengthCheck(links) == links.t = "array"

\* Array.isArray(links) && links.length > 0 &&
HeroLinksShown(links) == links.t = "array" /\ Len(links.v) > 0

\* media && typeof media === 'object' &&
HeroMediaShown(media) == TruthyProp(media) /\ TypeofObject(media)

\* <li key={i}><CMSLink {...link} /></li>
HeroLinkItem(item, i) ==
    [type |-> "li", key |-> i,
     child |-> [type |-> "CMSLink", label |-> item.link.label, url |-> item.link.url]]

HighImpactHero(p) ==
    [threw    |-> FALSE,
     richText |-> IF HeroRichTextShown(p.richText)
                    THEN <<[type |-> "RichText", data |-> p.richText]>> ELSE <<>>,
     links    |-> IF HeroLinksShown(p.links)
                    THEN <<[type |-> "ul",
                            children |-> [i \in 1..Len(p.links.v) |->
                                             HeroLinkItem(p.links.v[i], i - 1)]]>>
                    ELSE <<>>,
     media    |-> IF HeroMediaShown(p.media)
                    THEN <<[type |-> "Media", resource |-> p.media]>> ELSE <<>>]

NoHeroOutput == [threw |-> FALSE, richText |-> <<>>, links |-> <<>>, media |-> <<>>]

-----------------------------------------------------------------------------
(* The theme provider *)

\* the value the next commit will give the shared theme
SharedNext == IF sharedQueue # NONE THEN sharedQueue ELSE headerTheme

\* the value the next commit will give the display theme
ThemeNext == IF themeQueue # NONE THEN themeQueue ELSE theme

\* setHeaderTheme(v): a state setter; a call with the current value and
\* nothing queued schedules nothing
SetHeaderTheme(v) ==
    sharedQueue' = IF sharedQueue = NONE /\ v = headerTheme THEN NONE ELSE v

\* setTheme(v) of HeaderClient's useState
SetTheme(v) ==
    themeQueue' = IF themeQueue = NONE /\ v = theme THEN NONE ELSE v

EffectsPending == resetPending \/ syncPending \/ heroPending

-----------------------------------------------------------------------------
(* Commits *)

\* the Hero's effect returning () => setHeaderTheme(null)
EffectCleanup_HeroResets(hr) == IF heroMounted /\ ~hr THEN NULL ELSE NONE

\* What the effects' cleanup functions queue for the shared theme when a
\* commit leaves the Hero in the tree or not (hr): neither effect returns a
\* cleanup function, so nothing.
EffectCleanup(hr) == NONE

\* useState<string | null>(headerTheme)
InitialTheme_FromShared(shared) == shared

\* useState<string | null>(null): the display theme of a new Header, whatever
\* the shared theme is
InitialTheme(shared) == NULL

NoSyncStat == [runs |-> 0, calls |-> 0]

\* useEffect(() => { setHeaderTheme(null) }) without a dependency array
ResetScheduled_EveryRender(hdrNew, hdrRenders) == hdrRenders

\* The dependency array [setHeaderTheme] of the reset effect: the setter is the
\* same function in every render, so a commit schedules the effect only when
\* it mounts the Header (hdrNew), not when it re-renders it (hdrRenders).
ResetScheduled(hdrNew, hdrRenders) == hdrNew

\* One render pass and commit: hm and hr say whether HeaderClient and
\* HighImpactHero are in the tree after it, d is HeaderClient's prop, p the
\* Hero's props and heroParent says that the Hero's parent re-renders it.
CommitTree(hm, hr, d, p, heroParent) ==
    LET hdrNew      == hm /\ ~headerMounted
        hdrStays    == hm /\ headerMounted
        shared1     == SharedNext
        theme1      == IF hdrStays THEN ThemeNext
                       ELSE IF hdrNew THEN InitialTheme(shared1) ELSE NULL
        ctxChanged  == shared1 # headerTheme
        hdrRenders  == hdrNew \/ (hdrStays /\ (ctxChanged \/ theme1 # theme))
        heroRenders == hr /\ (~heroMounted \/ ctxChanged \/ heroParent)
    IN  /\ ~EffectsPending
        /\ headerTheme' = shared1
        /\ sharedQueue' = EffectCleanup(hr)
        /\ headerMounted' = hm
        /\ theme' = theme1
        /\ themeQueue' = NONE
        /\ resetPending' = ResetScheduled(hdrNew, hdrRenders)
        /\ syncPending' = hdrRenders
        /\ data' = d
        /\ headerAttrs' = IF hdrRenders THEN HeaderRootProps(theme1)
                          ELSE IF hm THEN headerAttrs ELSE {}
        /\ navOut' = IF hdrRenders THEN HeaderNav(d)
                     ELSE IF hm THEN navOut ELSE NoOutput
        /\ heroMounted' = hr
        /\ heroPending' = heroRenders
        /\ heroProps' = IF hr THEN p ELSE PlainHero
        /\ heroOut' = IF heroRenders THEN HighImpactHero(p)
                      ELSE IF hr THEN heroOut ELSE NoHeroOutput
        /\ syncStat' = IF hdrStays /\ ~ctxChanged THEN syncStat ELSE NoSyncStat
        /\ UNCHANGED footerOut

\* the queued state updates are rendered
Commit ==
    /\ sharedQueue # NONE \/ themeQueue # NONE
    /\ CommitTree(headerMounted, heroMounted, data, heroProps, FALSE)
    /\ last' = "Commit"

MountHeader(d) ==
    /\ ~headerMounted
    /\ CommitTree(TRUE, heroMounted, d, heroProps, FALSE)
    /\ last' = "MountHeader"

UnmountHeader ==
    /\ headerMounted
    /\ CommitTree(FALSE, heroMounted, JsNull, heroProps, FALSE)
    /\ last' = "UnmountHeader"

MountHero(p) ==
    /\ ~heroMounted
    /\ CommitTree(headerMounted, TRUE, data, p, FALSE)
    /\ last' = "MountHero"

UnmountHero ==
    /\ heroMounted
    /\ CommitTree(headerMounted, FALSE, data, heroProps, FALSE)
    /\ last' = "UnmountHero"

\* a page with a Hero is loaded: the Header and the Hero mount in one commit,
\* and both components' mount effects are scheduled by it
MountPage(d) ==
    /\ ~headerMounted
    /\ ~heroMounted
    /\ CommitTree(TRUE, TRUE, d, PlainHero, FALSE)
    /\ last' = "MountPage"

\* the Hero's parent re-renders it
RerenderHero ==
    /\ heroMounted
    /\ CommitTree(headerMounted, TRUE, data, heroProps, TRUE)
    /\ last' = "RerenderHero"

-----------------------------------------------------------------------------
(* Effects *)

\* if (!headerTheme) setHeaderTheme(null)
HeaderResetEffect_OnlyWhenUnset ==
    /\ resetPending
    /\ IF Truthy(headerTheme) THEN UNCHANGED sharedQueue ELSE SetHeaderTheme(NULL)
    /\ resetPending' = FALSE
    /\ last' = "HeaderResetEffect"
    /\ UNCHANGED <<headerTheme, headerMounted, theme, themeQueue, syncPending,
                   data, headerAttrs, navOut, heroMounted, heroPending, footerOut,
                   syncStat, heroProps, heroOut>>

\* useEffect(() => { setHeaderTheme(null) }, [setHeaderTheme])
HeaderResetEffect ==
    /\ resetPending
    /\ SetHeaderTheme(NULL)
    /\ resetPending' = FALSE
    /\ last' = "HeaderResetEffect"
    /\ UNCHANGED <<headerTheme, headerMounted, theme, themeQueue, syncPending,
                   data, headerAttrs, navOut, heroMounted, heroPending, footerOut,
                   syncStat, heroProps, heroOut>>

\* headerTheme !== theme
SyncGuard_NoNullCheck(h, t) == h # t

\* headerTheme && !theme
SyncGuard_OnlyFirst(h, t) == Truthy(h) /\ ~Truthy(t)

\* headerTheme alone, without the comparison to theme
SyncGuard_NoDiffCheck(h, t) == Truthy(h)

\* headerTheme && headerTheme !== theme
SyncGuard(h, t) == Truthy(h) /\ h # t

\* if (...) { setTheme(headerTheme); setHeaderTheme(null) }: the effect takes
\* the request out of the shared theme once it has copied it
HeaderSyncEffect_WritesBack ==
    /\ syncPending
    /\ ~resetPending
    /\ IF SyncGuard(headerTheme, theme)
         THEN SetTheme(headerTheme) /\ SetHeaderTheme(NULL)
         ELSE UNCHANGED <<themeQueue, sharedQueue>>
    /\ syncPending' = FALSE
    /\ last' = "HeaderSyncEffect"
    /\ syncStat' = [runs  |-> syncStat.runs + 1,
                    calls |-> syncStat.calls
                              + (IF SyncGuard(headerTheme, theme) THEN 1 ELSE 0)]
    /\ UNCHANGED <<headerTheme, headerMounted, theme, resetPending,
                   data, headerAttrs, navOut, heroMounted, heroPending, footerOut,
                   heroProps, heroOut>>

\* useEffect(() => { if (...) setTheme(headerTheme) }, [headerTheme, theme])
HeaderSyncEffect ==
    /\ syncPending
    /\ ~resetPending
    /\ IF SyncGuard(headerTheme, theme)
         THEN SetTheme(headerTheme)
         ELSE UNCHANGED themeQueue
    /\ syncPending' = FALSE
    /\ last' = "HeaderSyncEffect"
    /\ syncStat' = [runs  |-> syncStat.runs + 1,
                    calls |-> syncStat.calls
                              + (IF SyncGuard(headerTheme, theme) THEN 1 ELSE 0)]
    /\ UNCHANGED <<headerTheme, sharedQueue, headerMounted, theme, resetPending,
                   data, headerAttrs, navOut, heroMounted, heroPending, footerOut,
                   heroProps, heroOut>>

\* setHeaderTheme('light')
HeroEffect_Light ==
    /\ heroPending
    /\ SetHeaderTheme("light")
    /\ heroPending' = FALSE
    /\ last' = "HeroEffect"
    /\ UNCHANGED <<headerTheme, headerMounted, theme, themeQueue, resetPending,
                   syncPending, data, headerAttrs, navOut, heroMounted, footerOut,
                   syncStat, heroProps, heroOut>>

\* setHeaderTheme(headerTheme === 'dark' ? null : 'dark')
HeroEffect_Toggle ==
    /\ heroPending
    /\ SetHeaderTheme(IF headerTheme = "dark" THEN NULL ELSE "dark")
    /\ heroPending' = FALSE
    /\ last' = "HeroEffect"
    /\ UNCHANGED <<headerTheme, headerMounted, theme, themeQueue, resetPending,
                   syncPending, data, headerAttrs, navOut, heroMounted, footerOut,
                   syncStat, heroProps, heroOut>>

\* useEffect(() => { setHeaderTheme('dark') })
HeroEffect ==
    /\ heroPending
    /\ SetHeaderTheme("dark")
    /\ heroPending' = FALSE
    /\ last' = "HeroEffect"
    /\ UNCHANGED <<headerTheme, headerMounted, theme, themeQueue, resetPending,
                   syncPending, data, headerAttrs, navOut, heroMounted, footerOut,
                   syncStat, heroProps, heroOut>>

\* any other consumer of the context calls the setter
OtherSetHeaderTheme(v) ==
    /\ SetHeaderTheme(v)
    /\ last' = "OtherSetHeaderTheme"
    /\ UNCHANGED <<headerTheme, headerMounted, theme, themeQueue, resetPending,
                   syncPending, data, headerAttrs, navOut, heroMounted,
                   heroPending, footerOut,
                   syncStat, heroProps, heroOut>>

\* the server renders the footer from the cached global
RenderFooter(footerData) ==
    /\ footerOut' = [rendered |-> TRUE, input |-> footerData,
                     out |-> Footer(footerData)]
    /\ last' = "RenderFooter"
    /\ UNCHANGED <<headerTheme, sharedQueue, headerMounted, theme, themeQueue,
                   resetPending, syncPending, data, headerAttrs, navOut,
                   heroMounted, heroPending, syncStat, heroProps, heroOut>>

-----------------------------------------------------------------------------
(* Specifications *)

Init ==
    /\ headerTheme = NULL
    /\ sharedQueue = NONE
    /\ headerMounted = FALSE
    /\ theme = NULL
    /\ themeQueue = NONE
    /\ resetPending = FALSE
    /\ syncPending = FALSE
    /\ data = JsNull
    /\ headerAttrs = {}
    /\ navOut = NoOutput
    /\ heroMounted = FALSE
    /\ heroPending = FALSE
    /\ footerOut = [rendered |-> FALSE, input |-> JsNull, out |-> NoOutput]
    /\ syncStat = NoSyncStat
    /\ heroProps = PlainHero
    /\ heroOut = NoHeroOutput
    /\ last = "Init"

NextRepo ==
    \/ Commit
    \/ \E d \in Globals : MountHeader(d)
    \/ UnmountHeader
    \/ MountHero(PlainHero)
    \/ \E d \in Globals : MountPage(d)
    \/ UnmountHero
    \/ RerenderHero
    \/ HeaderResetEffect
    \/ HeaderSyncEffect
    \/ HeroEffect
    \/ \E fd \in Globals : RenderFooter(fd)

Next ==
    \/ NextRepo
    \/ \E v \in ThemeValues : OtherSetHeaderTheme(v)

Spec == Init /\ [][Next]_vars

\* only the Header and the Hero of this repository write the shared theme
SpecRepo == Init /\ [][NextRepo]_vars

\* React runs every scheduled effect and renders every queued update
Fairness ==
    /\ WF_vars(Commit)
    /\ WF_vars(HeaderResetEffect)
    /\ WF_vars(HeaderSyncEffect)
    /\ WF_vars(HeroEffect)

FairRepo == SpecRepo /\ Fairness

\* the Header and a Hero with every hero field the CMS can supply
NextHero ==
    \/ Commit
    \/ MountHeader(JsNull)
    \/ UnmountHeader
    \/ \E p \in HeroProps : MountHero(p)
    \/ UnmountHero
    \/ RerenderHero
    \/ HeaderResetEffect
    \/ HeaderSyncEffect
    \/ HeroEffect

SpecHero == Init /\ [][NextHero]_vars

-----------------------------------------------------------------------------
(* Properties *)

HeaderStays == headerMounted /\ headerMounted'

DataThemeAttrs == {p \in headerAttrs : p[1] = "data-theme"}

\* the navigation list a global supplies, when it supplies one
SuppliedList(g) == g.navItems.v
SuppliesList(g) == g.t = "object" /\ g.navItems.t = "array"

NavLinksOf(out) == SubSeq(out.children, 1, Len(out.children) - 1)
FooterLinksOf(out) == out.children[3].children

C2_DisplayOnlyFromNonNullShared ==
    [][HeaderStays =>
          /\ (theme' # theme => headerTheme # NULL /\ theme' = headerTheme)
          /\ (theme # NULL => theme' # NULL)]_vars

\* a commit in which the Header rendered although the context kept its value:
\* the display theme changed in it
C2_Witness ==
    /\ last = "Commit"
    /\ headerMounted /\ heroMounted
    /\ syncPending /\ ~heroPending
    /\ theme = "dark"

\* C3: from a mounted, settled Header with the shared and the display theme
\* unset and a Hero that has just mounted, the shared theme, the display theme
\* and the root element's theme attribute all become "dark" (unless one of the
\* two is unmounted first), in that order: the display theme turns "dark" only
\* in a step that starts with the shared theme "dark", and the attribute is
\* "dark" only when the display theme is.
C3_HeroMakesHeaderDark ==
    /\ (/\ headerMounted /\ ~resetPending /\ ~syncPending
        /\ headerTheme = NULL /\ sharedQueue = NONE
        /\ theme = NULL /\ themeQueue = NONE
        /\ heroMounted /\ heroPending)
       ~> (\/ ~headerMounted
           \/ ~heroMounted
           \/ (/\ headerTheme = "dark"
               /\ theme = "dark"
               /\ <<"data-theme", "dark">> \in headerAttrs))
    /\ [][/\ (theme' = "dark" /\ theme # "dark") => headerTheme = "dark"
          /\ (<<"data-theme", "dark">> \in headerAttrs') => theme' = "dark"]_vars

C3_Witness ==
    /\ headerMounted /\ heroMounted
    /\ headerTheme = "dark"
    /\ theme = "dark"
    /\ <<"data-theme", "dark">> \in headerAttrs
    /\ ~EffectsPending
    /\ sharedQueue = NONE

\* C4: the rendered root element of a mounted Header has a data-theme
\* attribute exactly when the display theme is non-null, and the attribute's
\* value is then the display theme.
C4_DataThemeIffDisplayKnown ==
    headerMounted =>
        /\ (DataThemeAttrs # {}) <=> (theme # NULL)
        /\ \A p \in DataThemeAttrs : p[2] = theme

C4_Witness ==
    /\ headerMounted
    /\ theme = "light"
    /\ <<"data-theme", "light">> \in headerAttrs

\* C5: every mount of the Header schedules its reset effect, and the reset
\* effect leaves unset as the value requested for the shared theme, whatever
\* the shared theme was.
C5_MountResetsShared ==
    [][/\ (~headerMounted /\ headerMounted') => resetPending'
       /\ (resetPending /\ ~resetPending') => SharedNext' = NULL]_vars

C5_Witness ==
    /\ last = "HeaderResetEffect"
    /\ headerTheme = "dark"
    /\ sharedQueue = NULL

\* C6: a change of the shared theme re-runs the Header's sync effect; a run of
\* the effect requests the shared theme as the display theme when the shared
\* theme is non-null and differs from the display theme, and otherwise leaves
\* the display theme and its requested value alone; once the Header's effects
\* have run, a non-null shared theme is the display theme's requested value.
C6_SyncCopiesNonNullShared ==
    /\ [][HeaderStays =>
             /\ headerTheme' # headerTheme => syncPending'
             /\ (syncPending /\ ~syncPending') =>
                   /\ theme' = theme
                   /\ ThemeNext' = IF headerTheme # NULL /\ headerTheme # theme
                                     THEN headerTheme ELSE ThemeNext]_vars
    /\ []((headerMounted /\ ~resetPending /\ ~syncPending /\ headerTheme # NULL)
            => ThemeNext = headerTheme)

\* the effect has requested "light" over a displayed "dark"
C6_Witness ==
    /\ last = "HeaderSyncEffect"
    /\ headerTheme = "light"
    /\ theme = "dark"
    /\ themeQueue = "light"

\* C7: every mount and every re-render of the Hero schedules its effect; a run
\* of the effect leaves "dark" as the value requested for the shared theme;
\* and a run that finds "dark" already requested changes neither the shared
\* theme, nor the display theme, nor what is queued for them.
C7_HeroEffectEveryRenderIdempotent ==
    [][/\ (heroMounted' /\ (~heroMounted \/ headerTheme' # headerTheme
                             \/ last' = "RerenderHero")) => heroPending'
       /\ (heroPending /\ ~heroPending') =>
             /\ SharedNext' = "dark"
             /\ SharedNext = "dark" =>
                   UNCHANGED <<headerTheme, sharedQueue, theme, themeQueue>>]_vars

\* the effect ran again with "dark" shared and displayed
C7_Witness ==
    /\ last = "HeroEffect"
    /\ headerTheme = "dark"
    /\ sharedQueue = NONE
    /\ headerMounted
    /\ theme = "dark"

\* C8: a commit that unmounts the Hero requests no new value for the shared
\* theme (it only applies what was queued before it) and none for the display
\* theme; and a displayed "dark" of a mounted Header is replaced only by
\* another non-null value that was set as the shared theme, never by unset.
C8_NoUnsetOnHeroUnmount ==
    [][/\ (heroMounted /\ ~heroMounted') =>
             /\ SharedNext' = SharedNext
             /\ headerTheme' = SharedNext
             /\ HeaderStays => (theme' = ThemeNext /\ ThemeNext' = ThemeNext)
       /\ (HeaderStays /\ theme = "dark" /\ theme' # "dark") =>
             (headerTheme = "light" /\ theme' = "light")]_vars

C8_Witness ==
    /\ last = "UnmountHero"
    /\ headerMounted
    /\ headerTheme = "dark"
    /\ theme = "dark"
    /\ sharedQueue = NONE

\* C9: for every navigation list of length N supplied to HeaderNav or Footer,
\* exactly N navigation links are rendered, in the supplied order, and no two
\* of them share a key.
C9_NavLinksInOrderUniqueKeys ==
    /\ (headerMounted /\ SuppliesList(data)) =>
          LET links == NavLinksOf(navOut)
              items == SuppliedList(data)
          IN  /\ ~navOut.threw
              /\ Len(links) = Len(items)
              /\ \A i \in 1..Len(links) :
                    links[i].type = "CMSLink" /\ links[i].label = items[i].link.label
              /\ \A i, j \in 1..Len(links) : i # j => links[i].key # links[j].key
    /\ (footerOut.rendered /\ SuppliesList(footerOut.input)) =>
          LET links == FooterLinksOf(footerOut.out)
              items == SuppliedList(footerOut.input)
          IN  /\ ~footerOut.out.threw
              /\ Len(links) = Len(items)
              /\ \A i \in 1..Len(links) :
                    links[i].type = "CMSLink" /\ links[i].label = items[i].link.label
              /\ \A i, j \in 1..Len(links) : i # j => links[i].key # links[j].key

\* C10: for a navigation list of length 0, HeaderNav renders the search link
\* and nothing else, Footer renders the logo link, the theme selector and a
\* navigation container without items, and neither throws.
C10_EmptyListRendersStaticPartsOnly ==
    /\ (headerMounted /\ SuppliesList(data) /\ Len(SuppliedList(data)) = 0) =>
          /\ ~navOut.threw
          /\ navOut.children = <<[type |-> "Link", href |-> "/search"]>>
    /\ (/\ footerOut.rendered
        /\ SuppliesList(footerOut.input)
        /\ Len(SuppliedList(footerOut.input)) = 0) =>
          /\ ~footerOut.out.threw
          /\ Len(footerOut.out.children) = 3
          /\ footerOut.out.children[1] = [type |-> "Link", href |-> "/"]
          /\ footerOut.out.children[2] = [type |-> "ThemeSelector"]
          /\ footerOut.out.children[3] = [type |-> "nav", children |-> <<>>]

C10_Witness ==
    /\ headerMounted
    /\ SuppliesList(data) /\ Len(SuppliedList(data)) = 0
    /\ footerOut.rendered
    /\ SuppliesList(footerOut.input) /\ Len(SuppliedList(footerOut.input)) = 0

HasDuplicateLabels(items) ==
    \E i, j \in 1..Len(items) : i # j /\ items[i].link.label = items[j].link.label

Settled == ~EffectsPending /\ sharedQueue = NONE /\ themeQueue = NONE

\* C11: when two supplied navigation entries have the same label, HeaderNav
\* and Footer do not throw and render one link per entry, and two of the
\* rendered links then share a key.
C11_DuplicateLabelsRenderWithSharedKeys ==
    /\ (headerMounted /\ SuppliesList(data) /\ HasDuplicateLabels(SuppliedList(data))) =>
          LET links == NavLinksOf(navOut)
          IN  /\ ~navOut.threw
              /\ Len(links) = Len(SuppliedList(data))
              /\ \E i, j \in 1..Len(links) : i # j /\ links[i].key = links[j].key
    /\ (/\ footerOut.rendered
        /\ SuppliesList(footerOut.input)
        /\ HasDuplicateLabels(SuppliedList(footerOut.input))) =>
          LET links == FooterLinksOf(footerOut.out)
          IN  /\ ~footerOut.out.threw
              /\ Len(links) = Len(SuppliedList(footerOut.input))
              /\ \E i, j \in 1..Len(links) : i # j /\ links[i].key = links[j].key

C11_Witness ==
    /\ headerMounted
    /\ SuppliesList(data) /\ HasDuplicateLabels(SuppliedList(data))
    /\ footerOut.rendered
    /\ SuppliesList(footerOut.input) /\ HasDuplicateLabels(SuppliedList(footerOut.input))

\* C12: when the global is null or undefined, or its navItems is, HeaderNav
\* and Footer render what they render for an empty list and do not throw.
C12_MissingListRendersAsEmpty ==
    /\ (headerMounted /\ ~SuppliesList(data)) =>
          navOut = [threw |-> FALSE,
                    children |-> <<[type |-> "Link", href |-> "/search"]>>]
    /\ (footerOut.rendered /\ ~SuppliesList(footerOut.input)) =>
          footerOut.out =
             [threw |-> FALSE,
              children |-> <<[type |-> "Link", href |-> "/"],
                             [type |-> "ThemeSelector"],
                             [type |-> "nav", children |-> <<>>]>>]

C12_Witness ==
    /\ headerMounted
    /\ data = JsUndefined
    /\ footerOut.rendered
    /\ footerOut.input = [t |-> "object", navItems |-> JsNull]

\* C13: with only the Header and the Hero writing, a settled page without a
\* Hero under a mounted Header has the shared theme unset.
C13_PageWithoutHeroStartsUnset ==
    (headerMounted /\ ~heroMounted /\ Settled) => headerTheme = NULL

\* C14: with only the Header and the Hero writing, the shared theme and the
\* display theme are unset or "dark" in every reachable state (so each is one
\* of unset, "dark", "light"), and so is every value queued for them.
C14_ThemesUnsetOrDark ==
    /\ headerTheme \in ThemeValues /\ theme \in ThemeValues
    /\ headerTheme \in {NULL, "dark"}
    /\ theme \in {NULL, "dark"}
    /\ sharedQueue \in {NONE, NULL, "dark"}
    /\ themeQueue \in {NONE, "dark"}

C14_Witness ==
    /\ headerMounted /\ heroMounted
    /\ headerTheme = "dark"
    /\ theme = "dark"

\* C18: whatever the global, HeaderNav renders exactly one search link, and it
\* comes after all the navigation links.
C18_OneSearchLinkLast ==
    headerMounted =>
        LET c == navOut.children
        IN  /\ ~navOut.threw
            /\ Len(c) >= 1
            /\ c[Len(c)] = [type |-> "Link", href |-> "/search"]
            /\ \A i \in 1..(Len(c) - 1) : c[i].type = "CMSLink"
            /\ Len(c) = 1 + (IF SuppliesList(data) THEN Len(SuppliedList(data)) ELSE 0)

C18_Witness ==
    /\ headerMounted
    /\ Len(navOut.children) = 3
    /\ navOut.children[1].label # navOut.children[2].label

\* C20: with a Header and a Hero mounted and no other writer, the system
\* reaches a state with no effect scheduled, nothing queued and the shared and
\* the display theme both "dark" (unless one of the two is unmounted first),
\* and from such a state both stay "dark" while both stay mounted.
C20_ReachesQuiescentDark ==
    /\ (headerMounted /\ heroMounted)
       ~> (\/ ~headerMounted
           \/ ~heroMounted
           \/ (Settled /\ headerTheme = "dark" /\ theme = "dark"))
    /\ [][(/\ Settled /\ headerTheme = "dark" /\ theme = "dark"
           /\ HeaderStays /\ heroMounted /\ heroMounted')
          => (headerTheme' = "dark" /\ theme' = "dark"
              /\ sharedQueue' = NONE /\ themeQueue' = NONE)]_vars

C20_Witness ==
    /\ last = "HeroEffect"
    /\ headerMounted /\ heroMounted
    /\ Settled
    /\ headerTheme = "dark" /\ theme = "dark"

\* C16: every mount of the Header starts with the display theme unset, nothing
\* queued for it and no data-theme attribute on the rendered root, whatever
\* the shared theme is; and the attribute appears on a mounted Header only in
\* a commit that follows a run of the sync effect which found the shared theme
\* non-null and requested it as the display theme.
C16_MountStartsWithoutDataTheme ==
    [][/\ (~headerMounted /\ headerMounted') =>
             /\ theme' = NULL
             /\ themeQueue' = NONE
             /\ {p \in headerAttrs' : p[1] = "data-theme"} = {}
             /\ syncPending'
       /\ (/\ HeaderStays
           /\ DataThemeAttrs = {}
           /\ {p \in headerAttrs' : p[1] = "data-theme"} # {}) =>
             /\ headerTheme # NULL
             /\ themeQueue = headerTheme
             /\ syncStat.calls >= 1]_vars

\* a Header that has just mounted while the shared theme is "dark"
C16_Witness ==
    /\ last = "MountHeader"
    /\ headerTheme = "dark"
    /\ theme = NULL
    /\ DataThemeAttrs = {}

\* C19: between two changes of the shared theme (or since the Header mounted)
\* the sync effect calls setTheme at most once and runs at most twice, the
\* second time with its guard false; and without a change of the shared theme
\* it is scheduled again only by a change of the display theme.
C19_SyncEffectConverges ==
    /\ [](syncStat.calls <= 1 /\ syncStat.runs <= 2)
    /\ [][(HeaderStays /\ headerTheme' = headerTheme /\ syncPending') =>
             (syncPending \/ theme' # theme)]_vars
    /\ [][(syncPending /\ ~syncPending' /\ syncStat.runs = 1) =>
             /\ (headerTheme = NULL \/ headerTheme = theme)
             /\ themeQueue' = themeQueue]_vars

\* the effect has run a second time after its own update and found nothing
\* to do
C19_Witness ==
    /\ last = "HeaderSyncEffect"
    /\ syncStat = [runs |-> 2, calls |-> 1]
    /\ theme = "light"
    /\ headerTheme = "light"
    /\ themeQueue = NONE

\* C17: a mounted Hero renders its rich text exactly when richText is present,
\* its list of links exactly when links is a non-empty array (one item per
\* link, in the supplied order, keyed by index from 0), and its media exactly
\* when media is a populated object; it never throws, and whatever the fields
\* are each of its mounts and re-renders schedules the theme effect.
C17_HeroSectionsConditional ==
    heroMounted =>
        LET p == heroProps
            o == heroOut
        IN  /\ ~o.threw
            /\ (o.richText # <<>>) <=> (p.richText.t = "object")
            /\ (o.richText # <<>>) => o.richText[1].data = p.richText
            /\ (o.links # <<>>) <=> (p.links.t = "array" /\ p.links.v # <<>>)
            /\ (o.links # <<>>) =>
                  LET li == o.links[1].children
                  IN  /\ Len(li) = Len(p.links.v)
                      /\ \A i \in 1..Len(li) :
                            /\ li[i].key = i - 1
                            /\ li[i].child.label = p.links.v[i].link.label
            /\ (o.media # <<>>) <=> (p.media.t = "object")
            /\ (o.media # <<>>) => o.media[1].resource = p.media
            /\ (last \in {"MountHero", "RerenderHero"}) => heroPending

\* two links rendered, no rich text, media given as an id and skipped
C17_Witness ==
    /\ heroMounted
    /\ heroProps.richText = JsNull
    /\ heroProps.links.t = "array" /\ Len(heroProps.links.v) = 2
    /\ heroProps.media.t = "string"
    /\ heroOut.links # <<>>
    /\ heroOut.media = <<>>
    /\ heroOut.richText = <<>>
    /\ ~heroPending
    /\ SharedNext = "dark"

\* C21: after a page with a Hero has been mounted, in whichever order the
\* Header's reset and the Hero's effect ran, the Hero's request is not lost:
\* once no effect is scheduled and nothing is queued, so that nothing further
\* will happen by itself, a mounted Header next to a mounted Hero has the
\* shared theme and the display theme "dark".
C21_MountOrderIndependent ==
    (headerMounted /\ heroMounted /\ Settled) =>
        (headerTheme = "dark" /\ theme = "dark")

C23_OneWayPropagation ==
    [][/\ (syncPending /\ ~syncPending') =>
             /\ UNCHANGED <<headerTheme, sharedQueue, theme, headerAttrs, heroPending>>
             /\ themeQueue' \in {themeQueue, headerTheme}
       /\ (heroPending /\ ~heroPending') =>
             UNCHANGED <<theme, themeQueue, headerAttrs, headerTheme, syncPending>>
       /\ (~syncPending /\ syncPending') =>
             /\ headerTheme' = SharedNext
             /\ SharedNext' = SharedNext
             /\ HeaderStays => (theme' = ThemeNext /\ ThemeNext' = ThemeNext)
       /\ (footerOut' # footerOut \/ last' = "RenderFooter") =>
             UNCHANGED <<headerTheme, sharedQueue, theme, themeQueue, headerAttrs,
                         resetPending, syncPending, heroPending>>
       /\ (HeaderStays /\ ThemeNext' # ThemeNext) =>
             (syncPending /\ ~syncPending' /\ ThemeNext' = headerTheme)]_vars

\* the sync effect has copied "dark" next to a mounted Hero and a rendered
\* Footer, and "dark" is still the shared theme
C23_Witness ==
    /\ last = "HeaderSyncEffect"
    /\ headerMounted /\ heroMounted /\ footerOut.rendered
    /\ Len(navOut.children) > 1
    /\ headerTheme = "dark"
    /\ sharedQueue = NONE
    /\ theme = NULL
    /\ themeQueue = "dark"

====
